---- MODULE Spec2Model ----
(***************************************************************************)
(* Model of the Task2 text analyzers (IGI/I_LR4/Task2).                    *)
(*                                                                         *)
(* A Python str is a sequence of one-character strings.  A Python value    *)
(* handed to a constructor, a setter or analyze(text) is a record          *)
(* [type, s, n]: a str carries its characters in s, an int its value in n. *)
(* The regular expressions of the source are modelled by the matches the   *)
(* backtracking engine finds: leftmost start, greedy quantifiers first.    *)
(***************************************************************************)
EXTENDS Integers, Sequences, FiniteSets, TLC

(* ---------------------------------------------------------------- bounds *)

\* Longest text drawn for the segmentation and classification checks.
MaxLen == 5

\* Most lines typed in one manual entry (UserInterface.input_text).
MaxLines == 2

\* Characters the drawn texts are made of: a letter, a blank and the three
\* sentence terminators.
Alphabet == {"a", " ", ".", "!", "?"}

\* Every text of at most n characters over the alphabet.
TextsUpTo(n) == UNION {[1..k -> Alphabet] : k \in 0..n}

(* ------------------------------------------------------- Python values *)

PyStr(s) == [type |-> "str", s |-> s, n |-> 0]
PyNone == [type |-> "NoneType", s |-> <<>>, n |-> 0]
PyInt(i) == [type |-> "int", s |-> <<>>, n |-> i]

\* bool(v): the truth value Python's `not v` negates.
Truthy(v) ==
    CASE v.type = "str" -> Len(v.s) > 0
      [] v.type = "int" -> v.n # 0
      [] OTHER -> FALSE

\* isinstance(v, str)
IsInstanceStr(v) == v.type = "str"

(* ------------------------------------------------- characters, helpers *)

\* A character class of a pattern: the listed characters, or with neg
\* every character but them ([^...]).
Class(chars) == [neg |-> FALSE, chars |-> chars]
NotClass(chars) == [neg |-> TRUE, chars |-> chars]
InClass(cls, c) == (c \in cls.chars) # cls.neg

\* The class [.!?] of the sentence patterns.
Terminator == Class({".", "!", "?"})
IsTerminator(c) == InClass(Terminator, c)

\* \s of the patterns and the characters str.strip() removes.
Space == Class({" ", "\n", "\t", "\r"})
IsSpace(c) == InClass(Space, c)

LowerLetters ==
    {"a", "b", "c", "d", "e", "f", "g", "h", "i", "j", "k", "l", "m",
     "n", "o", "p", "q", "r", "s", "t", "u", "v", "w", "x", "y", "z"}
UpperLetters ==
    {"A", "B", "C", "D", "E", "F", "G", "H", "I", "J", "K", "L", "M",
     "N", "O", "P", "Q", "R", "S", "T", "U", "V", "W", "X", "Y", "Z"}
Digits == {"0", "1", "2", "3", "4", "5", "6", "7", "8", "9"}

\* \w of the patterns: a letter, a digit or the underscore.
WordChar == Class(LowerLetters \cup UpperLetters \cup Digits \cup {"_"})
IsWordChar(c) == InClass(WordChar, c)

SetMax(S) == CHOOSE x \in S : \A y \in S : y <= x
SetMin(S) == CHOOSE x \in S : \A y \in S : x <= y

\* str.strip(): the text without its leading and trailing whitespace.
Strip(s) ==
    LET keep == {i \in 1..Len(s) : ~IsSpace(s[i])}
    IN  IF keep = {} THEN <<>> ELSE SubSeq(s, SetMin(keep), SetMax(keep))

\* Last index of the longest run s[i..j] whose characters are all in the
\* class cls (i - 1 when s[i] is not): a greedy X* or X+ from position i.
RECURSIVE RunEnd(_, _, _)
RunEnd(cls, s, i) ==
    IF i <= Len(s) /\ InClass(cls, s[i]) THEN RunEnd(cls, s, i + 1) ELSE i - 1

\* First index at or after pos whose character is in cls, 0 when none.
RECURSIVE FirstIn(_, _, _)
FirstIn(cls, s, pos) ==
    IF pos > Len(s) THEN 0
    ELSE IF InClass(cls, s[pos]) THEN pos ELSE FirstIn(cls, s, pos + 1)

\* `$` without MULTILINE at position p (the index of the next character):
\* the end of the string, or just before a final newline.
AtDollar(s, p) == p = Len(s) + 1 \/ (p = Len(s) /\ s[p] = "\n")

(* ------------------------------- TextAnalyzer._split_into_sentences *)

\* One match of [.!?]+(?:\s+|$) starting at i: the index of its last
\* character, 0 when there is none.  The terminator run is tried longest
\* first; after it \s+ is tried before $.
MatchSentenceEnd(s, i) ==
    LET r == RunEnd(Terminator, s, i)
        tail(e) == IF e + 1 <= Len(s) /\ IsSpace(s[e + 1])
                   THEN RunEnd(Space, s, e + 1)
                   ELSE IF AtDollar(s, e + 1) THEN e ELSE 0
        good == {e \in i..r : tail(e) # 0}
    IN  IF i > Len(s) \/ good = {} THEN 0 ELSE tail(SetMax(good))

\* re.search(r'[.!?]+(?:\s+|$)', part) finds a match.
SearchSentenceEnd(part) == \E i \in 1..Len(part) : MatchSentenceEnd(part, i) # 0

\* re.split without the capturing group: the matches are dropped.
RECURSIVE SplitDroppingEnds(_, _)
SplitDroppingEnds(s, pos) ==
    LET starts == {i \in pos..Len(s) : MatchSentenceEnd(s, i) # 0}
    IN  IF starts = {}
        THEN << SubSeq(s, pos, Len(s)) >>
        ELSE LET i == SetMin(starts)
                 e == MatchSentenceEnd(s, i)
             IN  << SubSeq(s, pos, i - 1) >> \o SplitDroppingEnds(s, e + 1)

\* re.split(r'([.!?]+(?:\s+|$))', s) from position pos on: the text before
\* each match, then the match itself (the capturing group), then the rest.
RECURSIVE SplitKeepingEnds(_, _)
SplitKeepingEnds(s, pos) ==
    LET starts == {i \in pos..Len(s) : MatchSentenceEnd(s, i) # 0}
    IN  IF starts = {}
        THEN << SubSeq(s, pos, Len(s)) >>
        ELSE LET i == SetMin(starts)
                 e == MatchSentenceEnd(s, i)
             IN  << SubSeq(s, pos, i - 1), SubSeq(s, i, e) >>
                     \o SplitKeepingEnds(s, e + 1)

\* sentences.append(current_sentence) with neither the test nor the strip.
AppendUnstripped(sentences, current) == Append(sentences, current)

\* `if current_sentence.strip(): sentences.append(current_sentence.strip())`
AppendSentence(sentences, current) ==
    IF Strip(current) # <<>> THEN Append(sentences, Strip(current)) ELSE sentences

\* The loop of _split_into_sentences over parts[k..]: acc is
\* [current |-> current_sentence, sentences |-> sentences].
RECURSIVE CollectSentences(_, _, _)
CollectSentences(parts, k, acc) ==
    IF k > Len(parts) THEN acc
    ELSE LET cur == acc.current \o parts[k]
         IN  IF SearchSentenceEnd(parts[k])
             THEN CollectSentences(parts, k + 1,
                     [current |-> <<>>,
                      sentences |-> AppendSentence(acc.sentences, cur)])
             ELSE CollectSentences(parts, k + 1,
                     [current |-> cur, sentences |-> acc.sentences])

\* TextAnalyzer._split_into_sentences on the text s.
split_into_sentences(s) ==
    LET parts == SplitKeepingEnds(s, 1)
        acc == CollectSentences(parts, 1, [current |-> <<>>, sentences |-> <<>>])
    IN  AppendSentence(acc.sentences, acc.current)

\* str.endswith(c) for a one-character c.
EndsWith(s, c) == Len(s) > 0 /\ s[Len(s)] = c

\* The chain with `if` in place of `elif`: a sentence ending in `?` also
\* takes the else branch of the second test.
CountSentenceTwoIfs(types, sentence) ==
    LET t == IF EndsWith(sentence, "?")
             THEN [types EXCEPT !.interrogative = @ + 1] ELSE types
    IN  IF EndsWith(sentence, "!")
        THEN [t EXCEPT !.exclamatory = @ + 1]
        ELSE [t EXCEPT !.declarative = @ + 1]

\* One pass of the loop body of get_sentence_types: the if / elif / else
\* chain adds 1 to the counter of the first branch that applies.
CountSentence(types, sentence) ==
    IF EndsWith(sentence, "?")
    THEN [types EXCEPT !.interrogative = @ + 1]
    ELSE IF EndsWith(sentence, "!")
    THEN [types EXCEPT !.exclamatory = @ + 1]
    ELSE [types EXCEPT !.declarative = @ + 1]

RECURSIVE CountSentences(_, _, _)
CountSentences(sentences, k, types) ==
    IF k > Len(sentences) THEN types
    ELSE CountSentences(sentences, k + 1, CountSentence(types, sentences[k]))

\* TextAnalyzer.get_sentence_types over the sentence list: the counters
\* 'повествовательные' (declarative), 'вопросительные' (interrogative) and
\* 'побудительные' (exclamatory), all starting at 0.
get_sentence_types(sentences) ==
    CountSentences(sentences, 1,
        [declarative |-> 0, interrogative |-> 0, exclamatory |-> 0])

\* sum(len(x) for x in seq)
RECURSIVE SumLen(_)
SumLen(seq) == IF seq = <<>> THEN 0 ELSE Len(Head(seq)) + SumLen(Tail(seq))

\* A Python quotient total / count kept as the pair it is computed from;
\* the 0.0 (or 0) returned for an empty list is [num |-> 0, den |-> 1].
Ratio(total, count) == [num |-> total, den |-> count]
ZeroRatio == Ratio(0, 1)

\* TextAnalyzer.get_average_sentence_length
get_average_sentence_length(sentences) ==
    IF sentences = <<>> THEN ZeroRatio
    ELSE Ratio(SumLen(sentences), Len(sentences))

(* ------------------------------------------------ BasicTextAnalyzer *)

\* re.split(r'[.!?]+', s) from position pos on: the text between the
\* maximal terminator runs (no capturing group: the runs are dropped).
RECURSIVE SplitOnTerminators(_, _)
SplitOnTerminators(s, pos) ==
    LET starts == {i \in pos..Len(s) : IsTerminator(s[i])}
    IN  IF starts = {}
        THEN << SubSeq(s, pos, Len(s)) >>
        ELSE LET i == SetMin(starts)
                 e == RunEnd(Terminator, s, i)
             IN  << SubSeq(s, pos, i - 1) >> \o SplitOnTerminators(s, e + 1)

\* [s.strip() for s in sentences if s.strip()]
RECURSIVE StripNonBlank(_)
StripNonBlank(parts) ==
    IF parts = <<>> THEN <<>>
    ELSE IF Strip(Head(parts)) # <<>>
         THEN << Strip(Head(parts)) >> \o StripNonBlank(Tail(parts))
         ELSE StripNonBlank(Tail(parts))

\* The sentence list of _count_sentences and _calculate_avg_sentence_length.
BasicSentences(s) == StripNonBlank(SplitOnTerminators(s, 1))

\* One match of X*c starting at i, X the class cls and c a literal
\* character: the index of its last character (the c), 0 when there is
\* none.  X* is greedy: the last c that the run of X reaches is taken.
MatchStarThenChar(cls, c, s, i) ==
    LET r == RunEnd(cls, s, i)
        good == {e \in (i - 1)..r : e + 1 <= Len(s) /\ s[e + 1] = c}
    IN  IF good = {} THEN 0 ELSE SetMax(good) + 1

\* len(re.findall(X*c, s)) from position pos on: non-overlapping matches,
\* leftmost first, the scan resuming after each match.
RECURSIVE CountStarThenChar(_, _, _, _)
CountStarThenChar(cls, c, s, pos) ==
    LET starts == {i \in pos..Len(s) : MatchStarThenChar(cls, c, s, i) # 0}
    IN  IF starts = {} THEN 0
        ELSE 1 + CountStarThenChar(cls, c, s,
                     MatchStarThenChar(cls, c, s, SetMin(starts)) + 1)

\* The classes [^!?] and [^.] of _classify_sentences.
NotBangOrQuestion == NotClass({"!", "?"})
NotDot == NotClass({"."})

\* \b at position p (between s[p - 1] and s[p]): exactly one of the two
\* is a word character; outside the string there is none.
IsWordAt(s, p) == p >= 1 /\ p <= Len(s) /\ IsWordChar(s[p])
Boundary(s, p) == IsWordAt(s, p - 1) # IsWordAt(s, p)

\* One match of \bX+\b starting at i, X the class cls: the index of its
\* last character, 0 when there is none.  X+ is greedy and gives back
\* characters until \b holds behind it.
MatchBoundedRun(cls, s, i) ==
    LET r == RunEnd(cls, s, i)
        good == {e \in i..r : Boundary(s, e + 1)}
    IN  IF ~Boundary(s, i) \/ good = {} THEN 0 ELSE SetMax(good)

\* re.findall(r'\bX+\b', s) from position pos on.
RECURSIVE FindBoundedRuns(_, _, _)
FindBoundedRuns(cls, s, pos) ==
    LET starts == {i \in pos..Len(s) : MatchBoundedRun(cls, s, i) # 0}
    IN  IF starts = {} THEN <<>>
        ELSE LET i == SetMin(starts)
                 e == MatchBoundedRun(cls, s, i)
             IN  << SubSeq(s, i, e) >> \o FindBoundedRuns(cls, s, e + 1)

\* re.findall(r'\b\w+\b', s) from position pos on.
FindWords(s, pos) == FindBoundedRuns(WordChar, s, pos)

\* total_chars of _calculate_avg_sentence_length: the word characters of
\* every sentence.
RECURSIVE SumWordChars(_)
SumWordChars(sentences) ==
    IF sentences = <<>> THEN 0
    ELSE SumLen(FindWords(Head(sentences), 1)) + SumWordChars(Tail(sentences))

\* A Python dict with string keys: a function on its key set.
EmptyDict == [k \in {} |-> 0]
DictSet(d, key, value) ==
    [k \in DOMAIN d \cup {key} |-> IF k = key THEN value ELSE d[k]]

\* BasicTextAnalyzer._count_sentences on the results dict r and the text s.
count_sentences(r, s) ==
    DictSet(r, "total_sentences", Len(BasicSentences(s)))

\* BasicTextAnalyzer._classify_sentences
classify_sentences(r, s) ==
    LET declarative == CountStarThenChar(NotBangOrQuestion, ".", s, 1)
        interrogative == CountStarThenChar(NotDot, "?", s, 1)
        exclamatory == CountStarThenChar(NotDot, "!", s, 1)
    IN  DictSet(DictSet(DictSet(r,
            "declarative_sentences", declarative),
            "interrogative_sentences", interrogative),
            "exclamatory_sentences", exclamatory)

\* BasicTextAnalyzer._calculate_avg_sentence_length
calculate_avg_sentence_length(r, s) ==
    LET sentences == BasicSentences(s)
    IN  DictSet(r, "avg_sentence_length",
            IF sentences = <<>> THEN ZeroRatio
            ELSE Ratio(SumWordChars(sentences), Len(sentences)))

\* BasicTextAnalyzer._calculate_avg_word_length
calculate_avg_word_length(r, s) ==
    LET words == FindWords(s, 1)
    IN  DictSet(r, "avg_word_length",
            IF words = <<>> THEN ZeroRatio
            ELSE Ratio(SumLen(words), Len(words)))

(* ------------------------------------------- words, smileys, e-mails *)

\* The letters of [a-zA-Z...] and the class [a-zA-Z0-9].  (The source's
\* word class also holds the Cyrillic range, from which no text is drawn.)
Letter == Class(LowerLetters \cup UpperLetters)
Alnum == Class(LowerLetters \cup UpperLetters \cup Digits)

LowerSeq ==
    << "a", "b", "c", "d", "e", "f", "g", "h", "i", "j", "k", "l", "m",
       "n", "o", "p", "q", "r", "s", "t", "u", "v", "w", "x", "y", "z" >>
UpperSeq ==
    << "A", "B", "C", "D", "E", "F", "G", "H", "I", "J", "K", "L", "M",
       "N", "O", "P", "Q", "R", "S", "T", "U", "V", "W", "X", "Y", "Z" >>

\* str.lower()
LowerChar(c) ==
    IF c \in UpperLetters
    THEN LowerSeq[CHOOSE i \in 1..Len(UpperSeq) : UpperSeq[i] = c]
    ELSE c
Lower(s) == [i \in 1..Len(s) |-> LowerChar(s[i])]

\* The matches a scan (findall, finditer) takes, given for every start
\* index the end of the match there (0: none): the leftmost one, then the
\* leftmost one after its end, as << start, end >> pairs.
RECURSIVE Scan(_, _)
Scan(ends, pos) ==
    LET starts == {i \in pos..Len(ends) : ends[i] # 0}
    IN  IF starts = {} THEN <<>>
        ELSE LET i == SetMin(starts)
             IN  << << i, ends[i] >> >> \o Scan(ends, ends[i] + 1)

\* TextAnalyzerMixin.get_all_words: re.findall(r'\b[a-zA-Z...]+\b', text)
get_all_words(s) == FindBoundedRuns(Letter, s, 1)

\* TextAnalyzerMixin.count_words
count_words(s) == Len(get_all_words(s))

\* The quotient taken over the characters of the text, not over its words.
AverageOverText(s) ==
    IF get_all_words(s) = <<>> THEN ZeroRatio
    ELSE Ratio(SumLen(get_all_words(s)), Len(s) + 1)

\* TextAnalyzer.get_average_word_length
get_average_word_length(s) ==
    LET words == get_all_words(s)
    IN  IF words = <<>> THEN ZeroRatio ELSE Ratio(SumLen(words), Len(words))

Dash == Class({"-"})
Bracket == Class({"(", ")", "[", "]"})

\* One match of [;:]-*([\(\)\[\]])\1+ starting at i: the index of its last
\* character, 0 when there is none.  The group takes one bracket and \1+
\* asks for that same bracket at least once more.
MatchRepeatedSmiley(s, i) ==
    IF i > Len(s) \/ s[i] \notin {";", ":"} THEN 0
    ELSE LET d == RunEnd(Dash, s, i + 1)
             good == {e \in i..d : /\ e + 2 <= Len(s)
                                   /\ InClass(Bracket, s[e + 1])
                                   /\ s[e + 2] = s[e + 1]}
         IN  IF good = {} THEN 0
             ELSE RunEnd(Class({s[SetMax(good) + 1]}), s, SetMax(good) + 2)

\* TextAnalyzer.count_smileys
count_smileys(s) ==
    Len(Scan([i \in 1..Len(s) |-> MatchRepeatedSmiley(s, i)], 1))

\* The classes of the e-mail patterns.
LocalPart == Class(LowerLetters \cup UpperLetters \cup Digits
                       \cup {".", "_", "%", "+", "-"})
DomainPart == Class(LowerLetters \cup UpperLetters \cup Digits \cup {".", "-"})
NamePart == NotClass({"<", ">", "\n", ":"})
\* [A-Z|a-z] of AdvancedTextAnalyzer: the bar is a member of the class.
TldWithBar == Class(LowerLetters \cup UpperLetters \cup {"|"})

\* The largest member of a set of indices plus one, 0 for the empty set.
MaxPlusOne(S) == IF S = {} THEN 0 ELSE SetMax(S) + 1

\* T{2,} behind the dot at e2 + 1 (T the class tld), followed by \b when
\* bounded: the index of its last character, 0 when there is none.  T{2,}
\* is greedy and gives back characters until \b holds.
TldEnd(s, e2, tld, bounded) ==
    MaxPlusOne({t \in (e2 + 2)..(RunEnd(tld, s, e2 + 2) - 1) :
                    ~bounded \/ Boundary(s, t + 2)})

\* For every end e2 of the domain part D+ between lo and hi, the end of the
\* address when a dot and a top-level segment follow it, 0 otherwise.
AddressEnds(s, lo, hi, tld, bounded) ==
    [e2 \in lo..hi |-> IF s[e2 + 1] = "." THEN TldEnd(s, e2, tld, bounded) ELSE 0]

\* D+ is greedy and gives back characters: the longest domain part that
\* works decides the end of the address.
LongestEnd(ends) ==
    LET good == {e2 \in DOMAIN ends : ends[e2] # 0}
    IN  IF good = {} THEN 0 ELSE ends[SetMax(good)]

NoAddress == [at |-> 0, end |-> 0]
AddressAt(at, end) == IF end = 0 THEN NoAddress ELSE [at |-> at, end |-> end]

\* The rest of an address whose local part L+ is s[p..r1].
MatchAddressFrom(s, p, r1, tld, bounded) ==
    IF r1 < p \/ r1 + 1 > Len(s) \/ s[r1 + 1] # "@"
    THEN NoAddress
    ELSE AddressAt(r1 + 1,
                   LongestEnd(AddressEnds(s, r1 + 2,
                                          RunEnd(DomainPart, s, r1 + 2) - 1,
                                          tld, bounded)))

\* One match of L+@D+\.T{2,} starting at p, followed by \b when bounded:
\* [at |-> index of the @, end |-> index of the last character], end = 0
\* when there is none.
MatchAddress(s, p, tld, bounded) ==
    MatchAddressFrom(s, p, RunEnd(LocalPart, s, p), tld, bounded)

\* The index of the `<` behind a name that ends at j: optional whitespace,
\* `<` and an address follow the name; 0 when they do not.
AngleAfter(s, j) ==
    MaxPlusOne({k \in j..RunEnd(Space, s, j + 1) :
                    /\ k + 1 <= Len(s)
                    /\ s[k + 1] = "<"
                    /\ MatchAddress(s, k + 2, Letter, FALSE).end # 0})

\* For every end j of a name [^<>\n:]*? that starts at i, AngleAfter.
AnglesFrom(s, i) ==
    [j \in (i - 1)..RunEnd(NamePart, s, i) |-> AngleAfter(s, j)]

\* The lazy name group grows one character at a time: the shortest name
\* that works, [found, nameTo, mailFrom].
ShortestName(angles) ==
    LET js == {j \in DOMAIN angles : angles[j] # 0}
    IN  IF js = {}
        THEN [found |-> FALSE, nameTo |-> 0, mailFrom |-> 0]
        ELSE [found |-> TRUE, nameTo |-> SetMin(js),
              mailFrom |-> angles[SetMin(js)] + 1]

NoNamedAddress ==
    [end |-> 0, named |-> FALSE, nameTo |-> 0, mailFrom |-> 0, mailTo |-> 0]

\* The match of an address s[from..e] with the optional `>` behind it.
NamedAddress(s, named, nameTo, from, e) ==
    IF e = 0 THEN NoNamedAddress
    ELSE [end |-> IF e + 1 <= Len(s) /\ s[e + 1] = ">" THEN e + 1 ELSE e,
          named |-> named, nameTo |-> nameTo, mailFrom |-> from, mailTo |-> e]

\* The named alternative when a name works, the bare address otherwise.
NamedOrBare(s, i, name) ==
    IF name.found
    THEN NamedAddress(s, TRUE, name.nameTo, name.mailFrom,
                      MatchAddress(s, name.mailFrom, Letter, FALSE).end)
    ELSE NamedAddress(s, FALSE, i - 1, i, MatchAddress(s, i, Letter, FALSE).end)

\* One match of TextAnalyzer's pattern
\*   (?:([^<>\n:]*?)\s*<)?(address)>?
\* starting at i: the lazy name group grows one character at a time until
\* whitespace, `<` and an address follow it; when no length works the
\* optional part is skipped and the address must start at i.
\* [end, named, nameTo, mailFrom, mailTo], end = 0 when there is no match.
MatchNamedAddress(s, i) == NamedOrBare(s, i, ShortestName(AnglesFrom(s, i)))

\* (match.group(2), match.group(1).strip() if match.group(1) else '')
EmailAndName(s, i, m) ==
    [email |-> SubSeq(s, m.mailFrom, m.mailTo),
     name |-> IF m.named THEN Strip(SubSeq(s, i, m.nameTo)) ELSE <<>>]

\* The (email, name) pairs of the matches found.
EmailsAndNamesAt(s, found) ==
    [k \in 1..Len(found) |->
        EmailAndName(s, found[k][1], MatchNamedAddress(s, found[k][1]))]

\* TextAnalyzer.get_emails_and_names
get_emails_and_names(s) ==
    EmailsAndNamesAt(s, Scan([i \in 1..Len(s) |-> MatchNamedAddress(s, i).end], 1))

\* The pattern \$v_\(([a-zA-Z0-9])\)\$ matches at i.
MatchVariable(s, i) ==
    /\ i + 6 <= Len(s)
    /\ s[i] = "$" /\ s[i + 1] = "v" /\ s[i + 2] = "_" /\ s[i + 3] = "("
    /\ InClass(Alnum, s[i + 4])
    /\ s[i + 5] = ")" /\ s[i + 6] = "$"

\* re.sub with count=1: only the first occurrence from pos on is replaced.
SubstituteFirst(s, pos) ==
    IF \A i \in pos..Len(s) : ~MatchVariable(s, i)
    THEN SubSeq(s, pos, Len(s))
    ELSE SubSeq(s, pos, SetMin({i \in pos..Len(s) : MatchVariable(s, i)}) - 1)
         \o << "v", "[",
               s[SetMin({i \in pos..Len(s) : MatchVariable(s, i)}) + 4], "]" >>
         \o SubSeq(s, SetMin({i \in pos..Len(s) : MatchVariable(s, i)}) + 7, Len(s))

\* re.sub(pattern, r'v[\1]', s) from position pos on.
RECURSIVE SubstituteFrom(_, _)
SubstituteFrom(s, pos) ==
    IF pos > Len(s) THEN <<>>
    ELSE IF MatchVariable(s, pos)
    THEN << "v", "[", s[pos + 4], "]" >> \o SubstituteFrom(s, pos + 7)
    ELSE << s[pos] >> \o SubstituteFrom(s, pos + 1)

\* TextAnalyzer.replace_math_vars
replace_math_vars(s) == SubstituteFrom(s, 1)

OddLength(word) == Len(word) % 2 # 0

\* TextAnalyzer.get_odd_length_words
get_odd_length_words(s) == SelectSeq(get_all_words(s), OddLength)

\* One match of \b[iI]\w+\b starting at i (0: none).
MatchIWord(s, i) ==
    IF i > Len(s) \/ ~Boundary(s, i) \/ s[i] \notin {"i", "I"} THEN 0
    ELSE LET good == {e \in (i + 1)..RunEnd(WordChar, s, i + 1) : Boundary(s, e + 1)}
         IN  IF good = {} THEN 0 ELSE SetMax(good)

\* min(words, key=len): the first of the shortest.
MinByLen(words) ==
    words[SetMin({k \in 1..Len(words) :
                     \A j \in 1..Len(words) : Len(words[k]) <= Len(words[j])})]

\* min(i_words, key=len, default=None) shown as text: "None" when no word
\* on i is found.
ShortestOrNone(s) ==
    IF \A i \in 1..Len(s) : MatchIWord(s, i) = 0
    THEN << "N", "o", "n", "e" >>
    ELSE SubSeq(s, SetMin({i \in 1..Len(s) : MatchIWord(s, i) # 0}),
                MatchIWord(s, SetMin({i \in 1..Len(s) : MatchIWord(s, i) # 0})))

\* TextAnalyzer.get_shortest_i_word
get_shortest_i_word(s) ==
    LET found == Scan([i \in 1..Len(s) |-> MatchIWord(s, i)], 1)
        i_words == [k \in 1..Len(found) |-> SubSeq(s, found[k][1], found[k][2])]
    IN  IF i_words = <<>> THEN <<>> ELSE MinByLen(i_words)

\* Every occurrence of a word that occurs more than once.
RepeatedEveryOccurrence(words, k) ==
    SelectSeq(SubSeq(words, k, Len(words)),
              LAMBDA w : Cardinality({j \in 1..Len(words) : words[j] = w}) > 1)

\* The words counted more than once, each once, in the order of their
\* first occurrence (the insertion order of the counting dict).
RECURSIVE RepeatedFrom(_, _)
RepeatedFrom(words, k) ==
    IF k > Len(words) THEN <<>>
    ELSE (IF /\ \A j \in 1..(k - 1) : words[j] # words[k]
             /\ \E j \in (k + 1)..Len(words) : words[j] = words[k]
          THEN << words[k] >> ELSE <<>>) \o RepeatedFrom(words, k + 1)

\* One match of \b(?!v_\b)[a-zA-Z...]+\b starting at i (0: none).
MatchCountedWord(s, i) ==
    IF /\ i + 1 <= Len(s) /\ s[i] = "v" /\ s[i + 1] = "_"
       /\ Boundary(s, i + 2)
    THEN 0
    ELSE MatchBoundedRun(Letter, s, i)

\* TextAnalyzer.get_repeated_words
get_repeated_words(s) ==
    LET low == Lower(s)
        found == Scan([i \in 1..Len(low) |-> MatchCountedWord(low, i)], 1)
        words == [k \in 1..Len(found) |-> SubSeq(low, found[k][1], found[k][2])]
    IN  RepeatedFrom(words, 1)

(* ------------------------------------------- AdvancedTextAnalyzer *)

\* AdvancedTextAnalyzer._extract_emails: _email_pattern is
\* \b(local)@(domain)\b with the top-level class [A-Z|a-z].
extract_emails(r, s) ==
    LET m(i) == IF Boundary(s, i) THEN MatchAddress(s, i, TldWithBar, TRUE)
                ELSE [at |-> 0, end |-> 0]
        found == Scan([i \in 1..Len(s) |-> m(i).end], 1)
    IN  DictSet(r, "emails",
            [k \in 1..Len(found) |->
                [username |-> SubSeq(s, found[k][1], m(found[k][1]).at - 1),
                 domain |-> SubSeq(s, m(found[k][1]).at + 1, found[k][2])]])

\* AdvancedTextAnalyzer._substitute_variables
substitute_variables(r, s) == DictSet(r, "substituted_text", SubstituteFrom(s, 1))

StartsWithI(word) == Len(word) > 0 /\ word[1] = "i"

\* min(i_words, key=len, default=None)
NoWord == [found |-> FALSE, word |-> <<>>]
FoundWord(w) == [found |-> TRUE, word |-> w]

\* AdvancedTextAnalyzer._analyze_words
analyze_words(r, s) ==
    LET words == FindWords(Lower(s), 1)
        i_words == SelectSeq(words, StartsWithI)
    IN  DictSet(DictSet(DictSet(r,
            "odd_length_words", SelectSeq(words, OddLength)),
            "shortest_i_word",
                IF i_words = <<>> THEN NoWord ELSE FoundWord(MinByLen(i_words))),
            "duplicate_words", RepeatedFrom(words, 1))

\* One match of (?::|;)-*[\(\)\[\]]+ starting at i (0: none).
MatchSmiley(s, i) ==
    IF i > Len(s) \/ s[i] \notin {":", ";"} THEN 0
    ELSE LET d == RunEnd(Dash, s, i + 1)
             good == {e \in i..d : RunEnd(Bracket, s, e + 1) > e}
         IN  IF good = {} THEN 0 ELSE RunEnd(Bracket, s, SetMax(good) + 1)

\* The validity test left out: every match of the pattern is kept.
AnySmiley(smiley) == Len(smiley) > 0

\* The validity test of _count_smileys on the match s[i..e]: the
\* brackets left by re.sub(r'^[:;]-*', '', smiley) are all the same.
ValidSmiley(smiley) ==
    LET d == RunEnd(Dash, smiley, 2)
        brackets == SubSeq(smiley, d + 1, Len(smiley))
    IN  /\ Cardinality({brackets[k] : k \in 1..Len(brackets)}) = 1
        /\ InClass(Bracket, brackets[1])

\* AdvancedTextAnalyzer._count_smileys
adv_count_smileys(r, s) ==
    LET found == Scan([i \in 1..Len(s) |-> MatchSmiley(s, i)], 1)
        smileys == [k \in 1..Len(found) |-> SubSeq(s, found[k][1], found[k][2])]
        valid_smileys == SelectSeq(smileys, ValidSmiley)
    IN  DictSet(DictSet(r, "smileys", valid_smileys),
                "smiley_count", Len(valid_smileys))

(* ------------------------------------------------------------ state *)

VARIABLES
    driver,            \* the class this run exercises: "TextAnalyzer",
                       \* "BasicTextAnalyzer" or "AdvancedTextAnalyzer";
                       \* "LogarithmicSeries" or "BookCatalog" in the runs
                       \* of the series and of the book-catalog menu
    constructed,       \* a TextAnalyzer exists (UserInterface.analyzer is set)
    text,              \* TextAnalyzer._text, a Python value
    cached_sentences,  \* TextAnalyzer._cached_sentences
    returned,          \* what the last call returned when it was `sentences`
    report,            \* what the last call returned when it was analyze
    b_text,            \* BasicTextAnalyzer._text, a Python value
    b_results,         \* BasicTextAnalyzer._results
    held,              \* the dict the previous analyze(text) returned, as
                       \* its caller holds it: what it held when it was
                       \* returned and what it holds now
    last,              \* the last call: its name, whether it raised, the
                       \* argument it rejected, whether analyze ran in it
    ref,               \* one Document followed through the run: the report of
                       \* its first analysis and how far the run has come
    series,            \* the LogarithmicSeries object and its last call
    shelf              \* the book-catalog menu: both catalogs, the two
                       \* files and the last command

vars == << driver, constructed, text, cached_sentences, returned, report,
           b_text, b_results, held, last, ref, series, shelf >>

\* The state of the text analyzers.
textVars == << driver, constructed, text, cached_sentences, returned, report,
               b_text, b_results, held, last, ref >>

\* _cached_sentences: None, or a list of sentences.
NoneCache == [isNone |-> TRUE, list |-> <<>>]
ListCache(l) == [isNone |-> FALSE, list |-> l]

\* Nothing returned: the last call was another one, or it raised.
NoReturn == [given |-> FALSE, list |-> <<>>]
Returned(l) == [given |-> TRUE, list |-> l]
NoReport == EmptyDict

Call(op, raised, arg, analyzed) ==
    [op |-> op, raised |-> raised, arg |-> arg, analyzed |-> analyzed]

\* "I <a@b.cc> :)) $v_(1)$ I?": a name, an address, a smiley, a variable.
RichDoc ==
    << "I", " ", "<", "a", "@", "b", ".", "c", "c", ">", " ", ":", ")", ")",
       " ", "$", "v", "_", "(", "1", ")", "$", " ", "I", "?" >>

\* The documents the life-cycle runs draw from.
SampleDocs ==
    { << " " >>,
      << "a", "." >>,
      << "a", "?", "!" >>,
      << "a", "!", " ", "a", "?" >>,
      RichDoc }

\* The values handed to constructors, setters and analyze(text).
SampleValues ==
    {PyStr(d) : d \in SampleDocs} \cup {PyStr(<<>>), PyNone, PyInt(0), PyInt(5)}

\* The lines a user types: input() returns them without the newline, and
\* an empty line ends the entry.
SampleLines == { << " " >>, << "a", "?" >> }
LineLists == UNION {[1..k -> SampleLines] : k \in 0..MaxLines}

\* '\n'.join(lines)
RECURSIVE Join(_)
Join(lines) ==
    IF lines = <<>> THEN <<>>
    ELSE IF Len(lines) = 1 THEN Head(lines)
    ELSE Head(lines) \o << "\n" >> \o Join(Tail(lines))

(* ------------------------------------------------ BaseTextAnalyzer *)

\* The test without its isinstance half.
AcceptsTruthy(value) == Truthy(value)

\* The condition under which __init__ and the text setter do not raise:
\* the negation of `not value or not isinstance(value, str)`.
AcceptsText(value) == Truthy(value) /\ IsInstanceStr(value)

\* A setter that leaves the cache as it is.
KeptCacheOnSet(cache) == cache

\* What the text setter leaves in _cached_sentences (line 61).
CacheAfterSet(cache) == NoneCache

\* A read of `sentences` that returns without filling the cache.
CacheUntouched(txt, cache) == cache

\* The `sentences` property: fills the cache when it is None; the value
\* returned is the list of the cache this yields.
SentencesCache(txt, cache) ==
    IF cache.isNone THEN ListCache(split_into_sentences(txt.s)) ELSE cache

\* TextAnalyzer.analyze() on a text and the cache the call finds: the
\* first read of self.sentences fills the cache, and the report's keys are
\* 'Количество предложений', 'Типы предложений', 'Средняя длина
\* предложения', 'Средняя длина слова', 'Количество смайликов', 'Email
\* адреса', 'Текст с замененными переменными', 'Слова с нечетным
\* количеством букв', 'Самое короткое слово на i', 'Повторяющиеся слова',
\* 'Общее количество слов', in this order.
AnalyzeReport(txt, cache) ==
    LET sentences == SentencesCache(txt, cache).list
        r1 == DictSet(EmptyDict, "sentence_count", Len(sentences))
        r2 == DictSet(r1, "sentence_types", get_sentence_types(sentences))
        r3 == DictSet(r2, "average_sentence_length",
                      get_average_sentence_length(sentences))
        r4 == DictSet(r3, "average_word_length", get_average_word_length(txt.s))
        r5 == DictSet(r4, "smiley_count", count_smileys(txt.s))
        r6 == DictSet(r5, "emails", get_emails_and_names(txt.s))
        r7 == DictSet(r6, "replaced_text", replace_math_vars(txt.s))
        r8 == DictSet(r7, "odd_length_words", get_odd_length_words(txt.s))
        r9 == DictSet(r8, "shortest_i_word", get_shortest_i_word(txt.s))
        r10 == DictSet(r9, "repeated_words", get_repeated_words(txt.s))
    IN  DictSet(r10, "word_count", count_words(txt.s))

\* The followed Document after an analysis of doc that returned rep.
RefAfterAnalysis(doc, rep) ==
    IF doc # ref.doc THEN [ref EXCEPT !.phase = IF @ = "first" THEN "left" ELSE @]
    ELSE IF ref.phase = "unseen" THEN [ref EXCEPT !.phase = "first", !.report = rep]
    ELSE IF ref.phase = "left" THEN [ref EXCEPT !.phase = "again"]
    ELSE ref

\* The followed Document after the analyzer's text became doc.
RefAfterText(doc) ==
    IF doc # ref.doc /\ ref.phase = "first" THEN [ref EXCEPT !.phase = "left"]
    ELSE ref

(* ------------------------------------------- TextAnalyzer operations *)

\* No argument recorded: the call took none, or it accepted its argument
\* (which is then the text the object holds).
NoArg == [type |-> "absent", s |-> <<>>, n |-> 0]

\* TextAnalyzer(value): BaseTextAnalyzer.__init__.
Construct(value) ==
    /\ driver = "TextAnalyzer"
    /\ returned' = NoReturn
    /\ report' = NoReport
    /\ IF ~AcceptsText(value)
       THEN /\ last' = Call("init", TRUE, value, FALSE)
            /\ UNCHANGED << constructed, text, cached_sentences, ref >>
       ELSE /\ constructed' = TRUE
            /\ text' = value
            /\ cached_sentences' = NoneCache
            /\ last' = Call("init", FALSE, NoArg, FALSE)
            /\ ref' = RefAfterText(value.s)
    /\ UNCHANGED << series, shelf, driver, b_text, b_results, held >>

\* analyzer.text = value: the text setter.
SetText(value) ==
    /\ driver = "TextAnalyzer"
    /\ constructed
    /\ returned' = NoReturn
    /\ report' = NoReport
    /\ IF ~AcceptsText(value)
       THEN /\ last' = Call("set_text", TRUE, value, FALSE)
            /\ UNCHANGED << text, cached_sentences, ref >>
       ELSE /\ text' = value
            /\ cached_sentences' = CacheAfterSet(cached_sentences)
            /\ last' = Call("set_text", FALSE, NoArg, FALSE)
            /\ ref' = RefAfterText(value.s)
    /\ UNCHANGED << series, shelf, driver, constructed, b_text, b_results, held >>

\* A read of analyzer.sentences.
ReadSentences ==
    /\ driver = "TextAnalyzer"
    /\ constructed
    /\ cached_sentences' = SentencesCache(text, cached_sentences)
    /\ returned' = Returned(cached_sentences'.list)
    /\ report' = NoReport
    /\ last' = Call("sentences", FALSE, NoArg, FALSE)
    /\ UNCHANGED << series, shelf, driver, constructed, text, b_text, b_results, held, ref >>

\* analyzer.analyze()
Analyze ==
    /\ driver = "TextAnalyzer"
    /\ constructed
    /\ cached_sentences' = SentencesCache(text, cached_sentences)
    /\ report' = AnalyzeReport(text, cached_sentences)
    /\ returned' = NoReturn
    /\ last' = Call("analyze", FALSE, NoArg, TRUE)
    /\ ref' = RefAfterAnalysis(text.s, report')
    /\ UNCHANGED << series, shelf, driver, constructed, text, b_text, b_results, held >>

\* The new analyzer of a menu command and its process_text(): the object
\* replaces UserInterface.analyzer and analyze() runs on it at once.
LoadAndProcess(op, value) ==
    IF ~AcceptsText(value)
    THEN /\ last' = Call(op, TRUE, value, FALSE)
         /\ report' = NoReport
         /\ UNCHANGED << constructed, text, cached_sentences, ref >>
    ELSE /\ constructed' = TRUE
         /\ text' = value
         /\ cached_sentences' = SentencesCache(value, NoneCache)
         /\ report' = AnalyzeReport(value, NoneCache)
         /\ last' = Call(op, FALSE, NoArg, TRUE)
         /\ ref' = RefAfterAnalysis(value.s, report')

\* UserInterface.input_text: the lines typed before the first empty line
\* are joined with newlines; a ValueError of the constructor is printed.
InputText(lines) ==
    /\ driver = "TextAnalyzer"
    /\ returned' = NoReturn
    /\ LoadAndProcess("input_text", PyStr(Join(lines)))
    /\ UNCHANGED << series, shelf, driver, b_text, b_results, held >>

\* FileHandler.read_text_file accepts the content of an existing file.
FileAccepted(content) == Strip(content) # <<>>

\* UserInterface.load_text_from_file with the selected file's content and
\* the answer to "use this file?"; a ValueError is printed.
LoadTextFromFile(content, confirm) ==
    /\ driver = "TextAnalyzer"
    /\ returned' = NoReturn
    /\ IF ~confirm
       THEN /\ last' = Call("load_text_from_file", FALSE, NoArg, FALSE)
            /\ report' = NoReport
            /\ UNCHANGED << constructed, text, cached_sentences, ref >>
       ELSE IF ~FileAccepted(content)
       THEN /\ last' = Call("load_text_from_file", TRUE, PyStr(content), FALSE)
            /\ report' = NoReport
            /\ UNCHANGED << constructed, text, cached_sentences, ref >>
       ELSE LoadAndProcess("load_text_from_file", PyStr(content))
    /\ UNCHANGED << series, shelf, driver, b_text, b_results, held >>

(* -------------------------- BasicTextAnalyzer / AdvancedTextAnalyzer *)

\* The condition under which BasicTextAnalyzer's text setter does not
\* raise: the negation of `not isinstance(value, str)`.
BasicAcceptsText(value) == IsInstanceStr(value)

\* BasicTextAnalyzer.analyze after self.text = value: the setter has
\* replaced _results by {} and the four steps fill it in.
BasicSteps(value) ==
    calculate_avg_word_length(
        calculate_avg_sentence_length(
            classify_sentences(
                count_sentences(EmptyDict, value.s), value.s), value.s), value.s)

\* AdvancedTextAnalyzer.analyze: super().analyze(text), then the four
\* advanced steps on the same _results.
AdvancedSteps(value) ==
    adv_count_smileys(
        analyze_words(
            substitute_variables(
                extract_emails(BasicSteps(value), value.s), value.s), value.s), value.s)

\* `self._results.clear()`: the dict object is kept and emptied.
ResultsCleared(old) == [same |-> TRUE, dict |-> EmptyDict]

\* `self._results = {}` in the text setter: _results is bound to a new,
\* empty dict object; the old object is not touched.
ResultsAfterSet(old) == [same |-> FALSE, dict |-> EmptyDict]

\* No analyze(text) has returned yet.
NoHeld == [given |-> FALSE, snapshot |-> EmptyDict, dict |-> EmptyDict]

\* The dict the previous call returned is the object _results was bound to
\* when this call began (old); it holds what this call wrote (new) when
\* the setter kept the object, and what it held before otherwise.  The
\* {} of __init__ was never returned.
HeldAfter(old, reset, new) ==
    IF DOMAIN old = {} THEN NoHeld
    ELSE [given |-> TRUE, snapshot |-> old,
          dict |-> IF reset.same THEN new ELSE old]

\* analyzer.analyze(value) on a BasicTextAnalyzer or an
\* AdvancedTextAnalyzer; the text setter raises before anything is stored.
BasicAnalyze(value) ==
    /\ driver \in {"BasicTextAnalyzer", "AdvancedTextAnalyzer"}
    /\ IF ~BasicAcceptsText(value)
       THEN /\ last' = Call("analyze", TRUE, value, FALSE)
            /\ report' = NoReport
            /\ UNCHANGED << b_text, b_results, held, ref >>
       ELSE /\ b_text' = value
            /\ b_results' = IF driver = "AdvancedTextAnalyzer"
                            THEN AdvancedSteps(value) ELSE BasicSteps(value)
            /\ held' = HeldAfter(b_results, ResultsAfterSet(b_results), b_results')
            /\ report' = b_results'
            /\ last' = Call("analyze", FALSE, NoArg, TRUE)
            /\ ref' = RefAfterAnalysis(value.s, report')
    /\ UNCHANGED << series, shelf, driver, constructed, text, cached_sentences, returned >>

(* ------------------------------------------------ LogarithmicSeries *)

\* Most points and most terms a series is built with, and the widest
\* x_start and x_end tried, in halves (-1.5 .. 1.5).
MaxPoints == 3
MaxTerms == 2
MaxHalves == 3

\* x_start and x_end are drawn on a grid of halves; 1.0 is two of them.
HalvesPerUnit == 2
XHalves == -MaxHalves..MaxHalves

PyBool(b) == [type |-> "bool", s |-> <<>>, n |-> IF b THEN 1 ELSE 0]
PyFloat(i) == [type |-> "float", s |-> <<>>, n |-> i]

\* isinstance(v, int): bool is a subclass of int.
IsInstanceInt(v) == v.type \in {"int", "bool"}

\* `not isinstance(value, int) or value <= 0` is false.
PositiveInt(v) == IsInstanceInt(v) /\ v.n > 0

RECURSIVE Gcd(_, _)
Gcd(a, b) == IF b = 0 THEN a ELSE Gcd(b, a % b)

\* The number num/den (den > 0) in lowest terms. The code works on floats;
\* the model keeps the exact quotient, so that equal numbers are equal.
Quotient(num, den, g) == [num |-> num \div g, den |-> den \div g]
Point(num, den) == Quotient(num, den, Gcd(IF num < 0 THEN -num ELSE num, den))

\* np.linspace(x_start, x_end, n): n evenly spaced points from x_start to
\* x_end, both included; the single point x_start when n = 1.
linspace(x_start, x_end, n) ==
    IF n = 1 THEN << Point(x_start, HalvesPerUnit) >>
    ELSE [k \in 1..n |->
             Point(x_start * (n - 1) + (k - 1) * (x_end - x_start),
                   HalvesPerUnit * (n - 1))]

\* abs(x) < 1
InsideInterval(x) == -x.den < x.num /\ x.num < x.den

\* LogarithmicSeries.__init__'s own test: `x_start <= -1 or x_end >= 1`
\* raises.
RangeAccepted(x_start, x_end) ==
    ~(x_start <= -HalvesPerUnit \/ x_end >= HalvesPerUnit)

RECURSIVE Power(_, _)
Power(b, e) == IF e = 0 THEN 1 ELSE b * Power(b, e - 1)

RECURSIVE Factorial(_)
Factorial(n) == IF n = 0 THEN 1 ELSE n * Factorial(n - 1)

\* The loop of calculate_series up to term `upto`, as a numerator over the
\* denominator x.den^terms * terms!.
RECURSIVE PartialSum(_, _, _)
PartialSum(x, terms, upto) ==
    IF upto = 0 THEN 0
    ELSE PartialSum(x, terms, upto - 1)
         + Power(-1, upto - 1) * Power(x.num, upto)
           * Power(x.den, terms - upto) * (Factorial(terms) \div upto)

\* LogarithmicSeries.calculate_series(x) with n_terms terms, for abs(x) < 1.
calculate_series(x, n_terms) ==
    Point(PartialSum(x, n_terms, n_terms),
          Power(x.den, n_terms) * Factorial(n_terms))

\* calculate_series raises: abs(x) >= 1.
SeriesRaises(x) == ~InsideInterval(x)

\* LogarithmicSeries.calculate_function(x): math.log(1 + x), kept symbolic.
calculate_function(x) == [log_of |-> Point(x.den + x.num, x.den)]

\* calculate_function raises: x <= -1.
FunctionRaises(x) == x.num <= -x.den

\* The series object (x_values, n_terms, _results) and the last call on it:
\* its name, whether it raised, the value assigned, the array returned.
\* `seen` is the array get_series_values returned last on this object and
\* `earlier` the one it had returned before that.
NoSeries ==
    [built |-> FALSE, x_values |-> <<>>, n_terms |-> PyNone,
     results |-> EmptyDict, op |-> "none", raised |-> FALSE,
     arg |-> PyNone, returned |-> <<>>, seen |-> <<>>, earlier |-> <<>>]

\* get_series_values has returned the array `values`.
SeriesReturned(s, values) ==
    [s EXCEPT !.op = "get_series_values", !.raised = FALSE, !.arg = PyNone,
              !.returned = values, !.seen = values, !.earlier = s.seen]

SeriesCall(s, op, raised, arg, ret) ==
    [s EXCEPT !.op = op, !.raised = raised, !.arg = arg, !.returned = ret]

\* _results kept through an n_terms assignment, in place of the clearing.
ResultsKept(results) == results

\* self._results.clear() in the n_terms setter.
ResultsAfterNTerms(results) == EmptyDict

\* LogarithmicSeries(x_start, x_end, n_points, n_terms). A run follows one
\* series object: the constructor is called until it succeeds.
NewLogarithmicSeries(x_start, x_end, n_points, n_terms) ==
    /\ driver = "LogarithmicSeries"
    /\ ~series.built
    /\ IF /\ RangeAccepted(x_start, x_end)
          /\ PositiveInt(n_points)
          /\ PositiveInt(n_terms)
       THEN series' = [built |-> TRUE,
                       x_values |-> linspace(x_start, x_end, n_points.n),
                       n_terms |-> n_terms,
                       results |-> EmptyDict,
                       op |-> "init", raised |-> FALSE,
                       arg |-> PyNone, returned |-> <<>>,
                       seen |-> <<>>, earlier |-> <<>>]
       ELSE series' = SeriesCall(series, "init", TRUE, PyNone, <<>>)
    /\ UNCHANGED << textVars, shelf >>

\* series.n_terms = value
SetNTerms(value) ==
    /\ driver = "LogarithmicSeries"
    /\ series.built
    /\ IF PositiveInt(value)
       THEN series' = [SeriesCall(series, "set_n_terms", FALSE, value, <<>>)
                          EXCEPT !.n_terms = value,
                                 !.results = ResultsAfterNTerms(series.results)]
       ELSE series' = SeriesCall(series, "set_n_terms", TRUE, value, <<>>)
    /\ UNCHANGED << textVars, shelf >>

\* series.get_series_values()
GetSeriesValues ==
    /\ driver = "LogarithmicSeries"
    /\ series.built
    /\ IF "series_values" \in DOMAIN series.results
       THEN series' = SeriesReturned(series, series.results["series_values"])
       ELSE IF \E k \in DOMAIN series.x_values : SeriesRaises(series.x_values[k])
       THEN series' = SeriesCall(series, "get_series_values", TRUE, PyNone, <<>>)
       ELSE LET values == [k \in DOMAIN series.x_values |->
                              calculate_series(series.x_values[k],
                                               series.n_terms.n)]
            IN  series' = [SeriesReturned(series, values)
                              EXCEPT !.results =
                                  DictSet(series.results, "series_values", values)]
    /\ UNCHANGED << textVars, shelf >>

\* series.get_function_values()
GetFunctionValues ==
    /\ driver = "LogarithmicSeries"
    /\ series.built
    /\ IF "function_values" \in DOMAIN series.results
       THEN series' = SeriesCall(series, "get_function_values", FALSE, PyNone,
                                 series.results["function_values"])
       ELSE IF \E k \in DOMAIN series.x_values : FunctionRaises(series.x_values[k])
       THEN series' = SeriesCall(series, "get_function_values", TRUE, PyNone, <<>>)
       ELSE LET values == [k \in DOMAIN series.x_values |->
                              calculate_function(series.x_values[k])]
            IN  series' = [SeriesCall(series, "get_function_values", FALSE,
                                      PyNone, values)
                              EXCEPT !.results =
                                  DictSet(series.results, "function_values", values)]
    /\ UNCHANGED << textVars, shelf >>

(* ------------------------------------------------- book-catalog menu *)

\* Most books the working catalog holds in a run.
MaxBooks == 2

\* The books typed at option 1.
BookTitles == {"Dune", "Emma"}
BookAuthors == {"Herbert"}

Book(title, author) == [title |-> title, author |-> author]

\* A file of the working directory: missing, or holding what was written.
NoFile == [exists |-> FALSE, data |-> <<>>]
File(data) == [exists |-> TRUE, data |-> data]

\* CSVBookCatalog.save_to_csv: the header row, then one row per book.
CsvRows(books) ==
    << << "Title", "Author" >> >>
    \o [k \in 1..Len(books) |-> << books[k].title, books[k].author >>]

\* The loop of load_from_csv: the header is skipped; every row of two
\* fields is added as a book.
IsBookRow(row) == Len(row) = 2
BooksOfRows(rows) ==
    LET kept == SelectSeq(Tail(rows), IsBookRow)
    IN  [k \in 1..Len(kept) |-> Book(kept[k][1], kept[k][2])]

\* The books of a catalog whose load_from_csv found no file: `self.books =
\* []` runs before the file is opened.
BooksAfterFailedCsvLoad(books) == <<>>

\* Both catalogs are new, no file is written yet. `before` keeps the books
\* the working catalog held when the last command began.
NewShelf ==
    [books |-> <<>>, pickle_books |-> <<>>, csv_file |-> NoFile,
     pickle_file |-> NoFile, op |-> "none", ok |-> TRUE, before |-> <<>>]

Command(op, ok) == [shelf EXCEPT !.op = op, !.ok = ok, !.before = shelf.books]

\* Option 1: catalog.add_book(title, author)
AddBook(title, author) ==
    /\ driver = "BookCatalog"
    /\ Len(shelf.books) < MaxBooks
    /\ shelf' = [Command("add_book", TRUE)
                    EXCEPT !.books = Append(shelf.books, Book(title, author))]
    /\ UNCHANGED << textVars, series >>

\* Option 4: catalog.save_to_csv('library.csv')
SaveToCsv ==
    /\ driver = "BookCatalog"
    /\ shelf' = [Command("save_to_csv", TRUE)
                    EXCEPT !.csv_file = File(CsvRows(shelf.books))]
    /\ UNCHANGED << textVars, series >>

\* Option 5: catalog.load_from_csv('library.csv')
LoadFromCsv ==
    /\ driver = "BookCatalog"
    /\ IF shelf.csv_file.exists
       THEN shelf' = [Command("load_from_csv", TRUE)
                         EXCEPT !.books = BooksOfRows(shelf.csv_file.data)]
       ELSE shelf' = [Command("load_from_csv", FALSE)
                         EXCEPT !.books = BooksAfterFailedCsvLoad(shelf.books)]
    /\ UNCHANGED << textVars, series >>

\* Option 6: pickle_catalog.books = catalog.get_all_books();
\* pickle_catalog.save_to_pickle('library.pickle')
SaveToPickle ==
    /\ driver = "BookCatalog"
    /\ shelf' = [Command("save_to_pickle", TRUE)
                    EXCEPT !.pickle_books = shelf.books,
                           !.pickle_file = File(shelf.books)]
    /\ UNCHANGED << textVars, series >>

\* Option 7: if pickle_catalog.load_from_pickle('library.pickle'):
\* catalog.books = pickle_catalog.get_all_books()
LoadFromPickle ==
    /\ driver = "BookCatalog"
    /\ IF shelf.pickle_file.exists
       THEN shelf' = [Command("load_from_pickle", TRUE)
                         EXCEPT !.pickle_books = shelf.pickle_file.data,
                                !.books = shelf.pickle_file.data]
       ELSE shelf' = Command("load_from_pickle", FALSE)
    /\ UNCHANGED << textVars, series >>

(* ------------------------------------------------------ specifications *)

NoRef(doc) == [doc |-> doc, report |-> NoReport, phase |-> "unseen"]

\* No TextAnalyzer yet, a fresh Basic/AdvancedTextAnalyzer (_text = "",
\* _results = {}), and the Document the run follows.
Init ==
    /\ driver \in {"TextAnalyzer", "BasicTextAnalyzer", "AdvancedTextAnalyzer"}
    /\ constructed = FALSE
    /\ text = PyNone
    /\ cached_sentences = NoneCache
    /\ returned = NoReturn
    /\ report = NoReport
    /\ b_text = PyStr(<<>>)
    /\ b_results = EmptyDict
    /\ held = NoHeld
    /\ series = NoSeries
    /\ shelf = NewShelf
    /\ last = Call("none", FALSE, NoArg, FALSE)
    /\ ref \in {NoRef(d) : d \in SampleDocs}

Next ==
    \/ \E value \in SampleValues : Construct(value)
    \/ \E value \in SampleValues : SetText(value)
    \/ ReadSentences
    \/ Analyze
    \/ \E lines \in LineLists : InputText(lines)
    \/ \E content \in SampleDocs \cup {<<>>}, confirm \in BOOLEAN :
           LoadTextFromFile(content, confirm)
    \/ \E value \in SampleValues : BasicAnalyze(value)

Spec == Init /\ [][Next]_vars

\* Longer documents checked beside the drawn ones: the spec's example, and
\* texts with line breaks.
ExampleDocs ==
    { << "H", "i", "!", " ", "A", "r", "e", " ", "y", "o", "u", " ",
         "o", "k", "?", " ", "Y", "e", "s", "." >>,
      << "a", ".", "\n", "a", "b", "?", "\n" >>,
      << "a", " ", "b", "\n", "c" >>,
      RichDoc }

\* Every document a segmentation run starts from.
DrawnDocs == TextsUpTo(MaxLen) \cup ExampleDocs

\* analyze(T) on the followed Document T.
AnalyzeDocument == BasicAnalyze(PyStr(ref.doc))

\* One Document per run: a TextAnalyzer constructed on it (when the
\* constructor accepts it), or a fresh Basic/AdvancedTextAnalyzer that is
\* handed it.
InitTexts ==
    /\ driver \in {"TextAnalyzer", "BasicTextAnalyzer", "AdvancedTextAnalyzer"}
    /\ ref \in {NoRef(d) : d \in DrawnDocs}
    /\ driver = "TextAnalyzer" => AcceptsText(PyStr(ref.doc))
    /\ constructed = (driver = "TextAnalyzer")
    /\ text = IF driver = "TextAnalyzer" THEN PyStr(ref.doc) ELSE PyNone
    /\ cached_sentences = NoneCache
    /\ returned = NoReturn
    /\ report = NoReport
    /\ b_text = PyStr(<<>>)
    /\ b_results = EmptyDict
    /\ held = NoHeld
    /\ series = NoSeries
    /\ shelf = NewShelf
    /\ last = Call(IF driver = "TextAnalyzer" THEN "init" ELSE "none",
                   FALSE, NoArg, FALSE)

NextTexts ==
    \/ ReadSentences
    \/ Analyze
    \/ AnalyzeDocument

SpecTexts == InitTexts /\ [][NextTexts]_vars

(* ------------------------------------------- word and markup runs *)

\* The longest drawn word text, and the most pieces a drawn markup text
\* is put together from.
MaxWordLen == 4
MaxPieces == 3

\* Letters of both cases, a digit, an underscore-free separator: enough
\* for words that touch a digit, one-letter words and repeated words.
WordAlphabet == {"a", "i", "I", "1", " "}

\* "the cat the dog the bird", "abc1", "ia ib I", "v_ v_ a_b A a".
WordExamples ==
    { << "t", "h", "e", " ", "c", "a", "t", " ", "t", "h", "e", " ",
         "d", "o", "g", " ", "t", "h", "e", " ", "b", "i", "r", "d" >>,
      << "a", "b", "c", "1" >>,
      << "i", "a", " ", "i", "b", " ", "I" >>,
      << "v", "_", " ", "v", "_", " ", "a", "_", "b", " ", "A", " ", "a" >> }

\* Every document a word run starts from.
WordDocs == UNION {[1..k -> WordAlphabet] : k \in 0..MaxWordLen} \cup WordExamples

\* The texts put together from at most n of the given pieces.
RECURSIVE Concat(_)
Concat(pieces) ==
    IF pieces = <<>> THEN <<>> ELSE Head(pieces) \o Concat(Tail(pieces))
PiecesUpTo(pieces, n) ==
    {Concat(ps) : ps \in UNION {[1..k -> pieces] : k \in 0..n}}

\* "a@b.cc", ".", " ", "N <", ">", a line break.
MailPieces ==
    { << "a", "@", "b", ".", "c", "c" >>, << "." >>, << " " >>,
      << "N", " ", "<" >>, << ">" >>, << "\n" >> }

\* "$v_(", "3", "x", ")$", " ", "$".
VariablePieces ==
    { << "$", "v", "_", "(" >>, << "3" >>, << "x" >>, << ")", "$" >>,
      << " " >>, << "$" >> }

\* "contact me at a.b@example.com please", "x .a@b.cc y",
\* "a@b.cc N <a@b.cc>", "a $v_(3)$ b", "$v_(xy)$", "$v_(1)$v_(2)$",
\* "$v_(1)$$v_(2)$".
MarkupExamples ==
    { << "c", "o", "n", "t", "a", "c", "t", " ", "m", "e", " ", "a", "t", " ",
         "a", ".", "b", "@", "e", "x", "a", "m", "p", "l", "e", ".", "c", "o", "m",
         " ", "p", "l", "e", "a", "s", "e" >>,
      << "x", " ", ".", "a", "@", "b", ".", "c", "c", " ", "y" >>,
      << "a", "@", "b", ".", "c", "c", " ", "N", " ", "<",
         "a", "@", "b", ".", "c", "c", ">" >>,
      << "a", " ", "$", "v", "_", "(", "3", ")", "$", " ", "b" >>,
      << "$", "v", "_", "(", "x", "y", ")", "$" >>,
      << "$", "v", "_", "(", "1", ")", "$", "v", "_", "(", "2", ")", "$" >>,
      << "$", "v", "_", "(", "1", ")", "$", "$", "v", "_", "(", "2", ")", "$" >> }

\* Every document a markup run starts from.
MarkupDocs ==
    PiecesUpTo(MailPieces, MaxPieces) \cup PiecesUpTo(VariablePieces, MaxPieces)
        \cup MarkupExamples

\* One Document of docs per run, as in InitTexts.
InitOn(docs) ==
    /\ driver \in {"TextAnalyzer", "BasicTextAnalyzer", "AdvancedTextAnalyzer"}
    /\ ref \in {NoRef(d) : d \in docs}
    /\ driver = "TextAnalyzer" => AcceptsText(PyStr(ref.doc))
    /\ constructed = (driver = "TextAnalyzer")
    /\ text = IF driver = "TextAnalyzer" THEN PyStr(ref.doc) ELSE PyNone
    /\ cached_sentences = NoneCache
    /\ returned = NoReturn
    /\ report = NoReport
    /\ b_text = PyStr(<<>>)
    /\ b_results = EmptyDict
    /\ held = NoHeld
    /\ series = NoSeries
    /\ shelf = NewShelf
    /\ last = Call(IF driver = "TextAnalyzer" THEN "init" ELSE "none",
                   FALSE, NoArg, FALSE)

InitWords == InitOn(WordDocs)
SpecWords == InitWords /\ [][NextTexts]_vars

InitMarkup == InitOn(MarkupDocs)
SpecMarkup == InitMarkup /\ [][NextTexts]_vars

(* ----------------------------------------------------- smiley runs *)

\* The longest drawn smiley text.
MaxSmileyLen == 4

SmileyAlphabet == {":", ";", "-", ")", "]", " "}

\* ":-)))", ":-)]", ":-))]", ";-( :)", ":))):))".
SmileyExamples ==
    { << ":", "-", ")", ")", ")" >>,
      << ":", "-", ")", "]" >>,
      << ":", "-", ")", ")", "]" >>,
      << ";", "-", "(", " ", ":", ")" >>,
      << ":", ")", ")", ")", ":", ")", ")" >> }

\* Every document a smiley run starts from.
SmileyDocs ==
    UNION {[1..k -> SmileyAlphabet] : k \in 0..MaxSmileyLen} \cup SmileyExamples

InitSmileys == InitOn(SmileyDocs)
SpecSmileys == InitSmileys /\ [][NextTexts]_vars

(* ------------------------------------------- series and catalog runs *)

\* The text analyzers are left alone in these runs.
TextIdle ==
    /\ constructed = FALSE
    /\ text = PyNone
    /\ cached_sentences = NoneCache
    /\ returned = NoReturn
    /\ report = NoReport
    /\ b_text = PyStr(<<>>)
    /\ b_results = EmptyDict
    /\ held = NoHeld
    /\ last = Call("none", FALSE, NoArg, FALSE)
    /\ ref = NoRef(<<>>)

\* What n_points and n_terms are given as: integers around zero and None,
\* and for n_terms a bool and a float as well.
PointCounts == {PyInt(k) : k \in 0..MaxPoints} \cup {PyNone}
TermCounts ==
    {PyInt(k) : k \in -1..MaxTerms} \cup {PyBool(TRUE), PyFloat(2), PyNone}

InitSeries ==
    /\ driver = "LogarithmicSeries"
    /\ TextIdle
    /\ series = NoSeries
    /\ shelf = NewShelf

NextSeries ==
    \/ \E x_start \in XHalves, x_end \in XHalves,
          n_points \in PointCounts, n_terms \in TermCounts :
           NewLogarithmicSeries(x_start, x_end, n_points, n_terms)
    \/ \E value \in TermCounts : SetNTerms(value)
    \/ GetSeriesValues
    \/ GetFunctionValues

SpecSeries == InitSeries /\ [][NextSeries]_vars

InitCatalog ==
    /\ driver = "BookCatalog"
    /\ TextIdle
    /\ series = NoSeries
    /\ shelf = NewShelf

NextCatalog ==
    \/ \E title \in BookTitles, author \in BookAuthors : AddBook(title, author)
    \/ SaveToCsv
    \/ LoadFromCsv
    \/ SaveToPickle
    \/ LoadFromPickle

SpecCatalog == InitCatalog /\ [][NextCatalog]_vars

(* -------------------------------------------------------------- claims *)

TextAnalyzerRun == driver = "TextAnalyzer"
BasicRun == driver \in {"BasicTextAnalyzer", "AdvancedTextAnalyzer"}

\* The text the last analysis ran on.
AnalyzedDoc == IF TextAnalyzerRun THEN text.s ELSE b_text.s

HasNonSpace(s) == \E i \in 1..Len(s) : ~IsSpace(s[i])
HasTerminator(s) == \E i \in 1..Len(s) : IsTerminator(s[i])

\* C1: the sentence cache is None or the segmentation of the text the
\* analyzer holds now, and a list just returned by `sentences` is the
\* segmentation of that text, never that of an earlier one.
C1_CacheFollowsText ==
    (TextAnalyzerRun /\ constructed) =>
        /\ cached_sentences.isNone
              \/ cached_sentences.list = split_into_sentences(text.s)
        /\ returned.given => returned.list = split_into_sentences(text.s)

\* C1 witness: the followed Document was analyzed (its sentences cached),
\* the text was replaced, and a read returned other sentences than those.
C1_ReadAfterReplacement ==
    /\ TextAnalyzerRun /\ constructed
    /\ ref.phase = "left"
    /\ last.op = "sentences" /\ returned.given
    /\ returned.list # split_into_sentences(ref.doc)
    /\ returned.list # <<>>

\* C2: the Document an analyzer holds is a non-empty string, and a
\* constructor or setter call that raised ran no analysis and returned
\* nothing; before the first successful construction nothing was analyzed.
C2_TextIsNonEmptyString ==
    TextAnalyzerRun =>
        /\ constructed => (IsInstanceStr(text) /\ Len(text.s) > 0)
        /\ last.raised =>
              (~last.analyzed /\ report = NoReport /\ ~returned.given)
        /\ ~constructed => (~last.analyzed /\ report = NoReport)

\* C2 witness: an analyzer exists and an assignment of a value that is
\* true but no string was just rejected.
C2_NonStringAssignmentRejected ==
    /\ TextAnalyzerRun /\ constructed
    /\ last.op = "set_text" /\ last.raised
    /\ last.arg = PyInt(5)

\* C3: an analyzer never holds, and analyze never runs on, a Document
\* without a non-whitespace character.
C3_WhitespaceDocumentRejected ==
    TextAnalyzerRun =>
        /\ constructed => HasNonSpace(text.s)
        /\ last.analyzed => HasNonSpace(text.s)

\* C4: analyze(text) of a Basic/AdvancedTextAnalyzer that did not raise
\* ran on a non-empty string: the empty string and non-strings are
\* rejected.
C4_InvalidDocumentRejected ==
    (BasicRun /\ last.op = "analyze" /\ ~last.raised) =>
        (IsInstanceStr(b_text) /\ Len(b_text.s) > 0)

\* C5: whenever the followed Document T has just been analyzed, the report
\* is the one its first analysis returned, whatever texts were set or
\* analyzed in between.
C5_SameReportForSameDocument ==
    (last.analyzed /\ AnalyzedDoc = ref.doc /\ ref.phase # "unseen") =>
        report = ref.report

\* C5 witness: T was analyzed, another text was set or analyzed, and T
\* has just been analyzed again by analyze().
C5_AnalyzedAgainAfterOthers ==
    /\ ref.phase = "again"
    /\ last.op = "analyze" /\ last.analyzed
    /\ AnalyzedDoc = ref.doc
    /\ report # NoReport

\* The sentences occur in s one after the other, from position from on.
RECURSIVE OccurInOrder(_, _, _, _)
OccurInOrder(sentences, k, s, from) ==
    \/ k > Len(sentences)
    \/ \E p \in from..(Len(s) - Len(sentences[k]) + 1) :
          /\ SubSeq(s, p, p + Len(sentences[k]) - 1) = sentences[k]
          /\ OccurInOrder(sentences, k + 1, s, p + Len(sentences[k]))

NoEmptyOrUntrimmed(sentences) ==
    \A i \in 1..Len(sentences) :
        /\ sentences[i] # <<>>
        /\ ~IsSpace(sentences[i][1])
        /\ ~IsSpace(sentences[i][Len(sentences[i])])

\* C6: every sentence the segmentation returns (and caches) is non-empty,
\* has no leading or trailing whitespace, and the sentences occur in the
\* text from left to right without overlapping.
C6_SentencesTrimmedInOrder ==
    (TextAnalyzerRun /\ constructed /\ ~cached_sentences.isNone) =>
        /\ NoEmptyOrUntrimmed(cached_sentences.list)
        /\ OccurInOrder(cached_sentences.list, 1, text.s, 1)
        /\ returned.given => returned.list = cached_sentences.list

\* C6 witness: a text that starts with a blank and has blanks after a
\* terminator was segmented into two sentences.
C6_TwoSentencesFromPaddedText ==
    /\ TextAnalyzerRun /\ returned.given
    /\ Len(returned.list) = 2
    /\ IsSpace(text.s[1])
    /\ HasTerminator(text.s)

TypeTotal(t) == t.declarative + t.interrogative + t.exclamatory

\* C7: in a report of TextAnalyzer.analyze() the three sentence-type
\* counts add up to the sentence count.
C7_TypeCountsAddUp ==
    (TextAnalyzerRun /\ last.analyzed) =>
        TypeTotal(report["sentence_types"]) = report["sentence_count"]

\* C7 witness: a report with a sentence of each of the three types.
C7_ReportWithEveryType ==
    /\ TextAnalyzerRun /\ last.analyzed
    /\ report["sentence_types"].declarative >= 1
    /\ report["sentence_types"].interrogative >= 1
    /\ report["sentence_types"].exclamatory >= 1

\* C8: in a report of Basic/AdvancedTextAnalyzer.analyze(T) the three
\* type counts add up to total_sentences.
C8_BasicTypeCountsAddUp ==
    (BasicRun /\ last.analyzed) =>
        report["declarative_sentences"] + report["interrogative_sentences"]
            + report["exclamatory_sentences"] = report["total_sentences"]

ZeroTypes == [declarative |-> 0, interrogative |-> 0, exclamatory |-> 0]

\* The one counter get_sentence_types raises for a sentence.
TypeCounted(sentence) ==
    LET t == CountSentence(ZeroTypes, sentence)
    IN  CASE t = [ZeroTypes EXCEPT !.interrogative = 1] -> "interrogative"
          [] t = [ZeroTypes EXCEPT !.exclamatory = 1] -> "exclamatory"
          [] t = [ZeroTypes EXCEPT !.declarative = 1] -> "declarative"
          [] OTHER -> "other"

\* The type a terminal character stands for: `?`, then `!`, else
\* declarative.
TypeOfChar(c) ==
    IF c = "?" THEN "interrogative"
    ELSE IF c = "!" THEN "exclamatory" ELSE "declarative"

\* The terminators of a text, in order.
TerminatorsOf(s) == SelectSeq(s, IsTerminator)

\* A text made of sentences that each end in one terminator followed by
\* whitespace or the end of the text.
EachSentenceTerminated(s) ==
    /\ \A i \in 1..Len(s) :
          IsTerminator(s[i]) => (i = Len(s) \/ IsSpace(s[i + 1]))
    /\ Strip(s) # <<>>
    /\ IsTerminator(Strip(s)[Len(Strip(s))])

CountOfType(chars, t) ==
    Cardinality({i \in 1..Len(chars) : TypeOfChar(chars[i]) = t})

\* C9: every sentence is counted under the type of its last character;
\* a text of k sentences that each end in one terminator followed by
\* whitespace or the end is segmented into k sentences, the i-th counted
\* under the type of the i-th terminator, and the report counts them so.
C9_ClassifiedByOwnTerminator ==
    TextAnalyzerRun =>
        /\ returned.given =>
              /\ \A i \in 1..Len(returned.list) :
                    TypeCounted(returned.list[i])
                        = TypeOfChar(returned.list[i][Len(returned.list[i])])
              /\ EachSentenceTerminated(text.s) =>
                    /\ Len(returned.list) = Len(TerminatorsOf(text.s))
                    /\ \A i \in 1..Len(returned.list) :
                          TypeCounted(returned.list[i])
                              = TypeOfChar(TerminatorsOf(text.s)[i])
        /\ (last.analyzed /\ EachSentenceTerminated(text.s)) =>
              /\ report["sentence_count"] = Len(TerminatorsOf(text.s))
              /\ \A t \in {"declarative", "interrogative", "exclamatory"} :
                    report["sentence_types"][t]
                        = CountOfType(TerminatorsOf(text.s), t)

\* C9 witness: "Hi! Are you ok? Yes." read as three sentences, counted
\* exclamatory, interrogative, declarative.
C9_ThreeSentencesExample ==
    /\ TextAnalyzerRun /\ returned.given
    /\ text.s = << "H", "i", "!", " ", "A", "r", "e", " ", "y", "o", "u", " ",
                   "o", "k", "?", " ", "Y", "e", "s", "." >>
    /\ Len(returned.list) = 3
    /\ << TypeCounted(returned.list[1]), TypeCounted(returned.list[2]),
          TypeCounted(returned.list[3]) >>
           = << "exclamatory", "interrogative", "declarative" >>

\* C10: a text without `.`, `!`, `?` is segmented into exactly one
\* sentence, the trimmed text, and that sentence is counted declarative.
C10_NoTerminatorOneSentence ==
    (TextAnalyzerRun /\ constructed /\ ~HasTerminator(text.s)) =>
        /\ returned.given =>
              /\ returned.list = << Strip(text.s) >>
              /\ TypeCounted(returned.list[1]) = "declarative"
        /\ last.analyzed =>
              /\ report["sentence_count"] = 1
              /\ report["sentence_types"] = [ZeroTypes EXCEPT !.declarative = 1]

\* A string of terminator characters and whitespace only.
OnlyTerminatorsAndSpace(x) ==
    \A i \in 1..Len(x) : IsTerminator(x[i]) \/ IsSpace(x[i])

\* C11: TextAnalyzer's segmentation emits no sentence that consists only
\* of terminator characters and whitespace.
C11_NoTerminatorOnlySentence ==
    (TextAnalyzerRun /\ returned.given) =>
        \A k \in 1..Len(returned.list) :
            ~OnlyTerminatorsAndSpace(returned.list[k])

\* C12: the number of sentences TextAnalyzer reports for a text is the
\* number of non-blank spans between its terminator runs, the
\* total_sentences BasicTextAnalyzer reports for the same text.
C12_SameCountAsBasic ==
    (TextAnalyzerRun /\ last.analyzed) =>
        report["sentence_count"] =
            count_sentences(EmptyDict, text.s)["total_sentences"]

\* The maximal runs of letters of s from position pos on, in scan order.
RECURSIVE LetterRunsFrom(_, _)
RECURSIVE LetterRunAt(_, _)
LetterRunsFrom(s, pos) == LetterRunAt(s, FirstIn(Letter, s, pos))
LetterRunAt(s, start) ==
    IF start = 0 THEN <<>>
    ELSE << SubSeq(s, start, RunEnd(Letter, s, start)) >>
         \o LetterRunsFrom(s, RunEnd(Letter, s, start) + 1)

\* C13: get_all_words returns exactly the maximal runs of alphabetic
\* characters, in scan order and case-preserved, also a run that touches a
\* digit or an underscore; count_words is their number.
C13_WordsAreMaximalLetterRuns ==
    (TextAnalyzerRun /\ last.analyzed) =>
        /\ get_all_words(text.s) = LetterRunsFrom(text.s, 1)
        /\ report["word_count"] = Len(LetterRunsFrom(text.s, 1))

\* An average of 0 when there are `count` = 0 words, of at least 1 otherwise.
ZeroOrAtLeastOne(avg, count) ==
    IF count = 0 THEN avg.num = 0 /\ avg.den > 0
    ELSE avg.den = count /\ avg.num >= avg.den

\* C14: the average word length is 0 when the Document has no words and
\* at least 1 when it has one: the summed character count of the words is
\* never smaller than their number (TextAnalyzer and BasicTextAnalyzer).
C14_AverageWordLengthBounds ==
    /\ (TextAnalyzerRun /\ last.analyzed) =>
           ZeroOrAtLeastOne(report["average_word_length"], report["word_count"])
    /\ (BasicRun /\ last.analyzed) =>
           ZeroOrAtLeastOne(report["avg_word_length"], Len(FindWords(b_text.s, 1)))

\* A TextAnalyzer report on a text with several words, one of them longer
\* than one character.
C14_WordsOfDifferentLength ==
    /\ TextAnalyzerRun /\ last.analyzed
    /\ report["word_count"] >= 2
    /\ report["average_word_length"].num > report["average_word_length"].den

LowerEach(words) == [k \in 1..Len(words) |-> Lower(words[k])]

\* C15: get_odd_length_words returns the lower-cased form of every word of
\* odd length, in scan order with repetitions kept, and nothing else.
C15_OddWordsLowerCased ==
    (TextAnalyzerRun /\ last.analyzed) =>
        report["odd_length_words"] =
            LowerEach(SelectSeq(get_all_words(text.s), OddLength))

StartsWithEitherI(word) == Len(word) > 0 /\ word[1] \in {"i", "I"}
FirstShortest(words) == IF words = <<>> THEN <<>> ELSE MinByLen(words)

\* C16: get_shortest_i_word returns the shortest word that starts with `i`
\* or `I`, a one-letter word included, the first of several of minimal
\* length, and the empty string when there is none.
C16_ShortestWordOnI ==
    (TextAnalyzerRun /\ last.analyzed) =>
        report["shortest_i_word"] =
            FirstShortest(SelectSeq(get_all_words(text.s), StartsWithEitherI))

Occurrences(words, w) == Cardinality({k \in 1..Len(words) : words[k] = w})

\* The repeated-word list rep of a Document whose lower-cased words are ws.
RepeatedExactly(rep, ws) ==
    /\ \A k \in 1..Len(ws) :
           (Occurrences(ws, ws[k]) >= 2) <=> (Occurrences(rep, ws[k]) = 1)
    /\ \A j \in 1..Len(rep) : Occurrences(ws, rep[j]) >= 2

AdvancedRun == driver = "AdvancedTextAnalyzer"

\* s[i..a-1] is a local part: one or more of letters, digits and `._%+-`.
IsLocalPart(s, i, a) ==
    i < a /\ \A k \in i..(a - 1) : InClass(LocalPart, s[k])

\* s[a+1..j] is a domain: labels of letters, digits and `-` separated by
\* single dots, the last one a top-level segment of two or more letters.
IsDomain(s, a, j) ==
    /\ a + 1 <= j
    /\ \A k \in (a + 1)..j : InClass(DomainPart, s[k])
    /\ s[a + 1] # "."
    /\ \A k \in (a + 1)..(j - 1) : ~(s[k] = "." /\ s[k + 1] = ".")
    /\ \E d \in (a + 2)..(j - 2) :
           s[d] = "." /\ \A k \in (d + 1)..j : InClass(Letter, s[k])

\* s[i..j] stands between whitespace or the ends of the text.
DelimitedBySpace(s, i, j) ==
    /\ i = 1 \/ IsSpace(s[i - 1])
    /\ j = Len(s) \/ IsSpace(s[j + 1])

AtSigns(s) == {k \in 1..Len(s) : s[k] = "@"}

\* C18: a text with a single whitespace-delimited address L@D gives
\* exactly one `emails` entry, with username L and domain D, and a text
\* without `@` gives none (AdvancedTextAnalyzer).
C18_SingleAddressExtracted ==
    (AdvancedRun /\ last.analyzed) =>
        /\ AtSigns(b_text.s) = {} => report["emails"] = <<>>
        /\ \A a \in AtSigns(b_text.s), i, j \in 1..Len(b_text.s) :
               ( /\ AtSigns(b_text.s) = {a}
                 /\ IsLocalPart(b_text.s, i, a)
                 /\ IsDomain(b_text.s, a, j)
                 /\ DelimitedBySpace(b_text.s, i, j) ) =>
               report["emails"] =
                   << [username |-> SubSeq(b_text.s, i, a - 1),
                       domain |-> SubSeq(b_text.s, a + 1, j)] >>

\* The substrings of s a left-to-right scan for local@domain.tld finds.
AddressesAt(s, found) ==
    [k \in 1..Len(found) |-> SubSeq(s, found[k][1], found[k][2])]
AddressesIn(s) ==
    AddressesAt(s, Scan([i \in 1..Len(s) |->
                            MatchAddress(s, i, Letter, FALSE).end], 1))

\* C19: get_emails_and_names returns one entry per address occurring in
\* the text, in text order, also when a bare address is followed by
\* another one written as `Name <address>`.
C19_EveryAddressListed ==
    (TextAnalyzerRun /\ last.analyzed) =>
        [k \in 1..Len(report["emails"]) |-> report["emails"][k].email]
            = AddressesIn(text.s)

\* What the substitution leaves of the character at i, given the
\* occurrences of $v_(X)$ chosen by a left-to-right scan.
SubstitutedAt(s, chosen, i) ==
    IF \E k \in 1..Len(chosen) : chosen[k][1] = i
    THEN << "v", "[", s[i + 4], "]" >>
    ELSE IF \E k \in 1..Len(chosen) : chosen[k][1] < i /\ i <= chosen[k][2]
    THEN <<>>
    ELSE << s[i] >>

\* s with every chosen occurrence replaced and the rest kept.
SubstitutedWith(s, chosen) ==
    Concat([i \in 1..Len(s) |-> SubstitutedAt(s, chosen, i)])

\* $v_(X)$ with X one alphanumeric character stands at i.
VariableAt(s, i) ==
    /\ i + 6 <= Len(s)
    /\ SubSeq(s, i, i + 3) = << "$", "v", "_", "(" >>
    /\ s[i + 4] \in LowerLetters \cup UpperLetters \cup Digits
    /\ SubSeq(s, i + 5, i + 6) = << ")", "$" >>

Substituted(s) ==
    SubstitutedWith(s, Scan([i \in 1..Len(s) |->
                                IF VariableAt(s, i) THEN i + 6 ELSE 0], 1))

\* The text of the last analysis after substitution, as reported.
SubstitutedText ==
    IF TextAnalyzerRun THEN report["replaced_text"] ELSE report["substituted_text"]

\* C20: the substitution replaces every occurrence of $v_(X)$, X one
\* alphanumeric character, by v[X] and copies every other character; a
\* text without an exact occurrence is returned unchanged.
C20_VariablesSubstituted ==
    ((TextAnalyzerRun \/ AdvancedRun) /\ last.analyzed) =>
        /\ SubstitutedText = Substituted(AnalyzedDoc)
        /\ (\A i \in 1..Len(AnalyzedDoc) : ~VariableAt(AnalyzedDoc, i)) =>
               SubstitutedText = AnalyzedDoc

\* "$v_(1)$$v_(2)$" analyzed: two occurrences, both replaced.
C20_TwoVariablesReplaced ==
    /\ (TextAnalyzerRun \/ AdvancedRun) /\ last.analyzed
    /\ AnalyzedDoc = << "$", "v", "_", "(", "1", ")", "$",
                        "$", "v", "_", "(", "2", ")", "$" >>
    /\ SubstitutedText = << "v", "[", "1", "]", "v", "[", "2", "]" >>

\* The last index of the candidate token at i (`:` or `;`, zero or more
\* `-`, a maximal run of one or more brackets), 0 when none starts there.
CandidateEnd(s, i) ==
    IF s[i] \in {":", ";"}
          /\ RunEnd(Bracket, s, RunEnd(Dash, s, i + 1) + 1) > RunEnd(Dash, s, i + 1)
    THEN RunEnd(Bracket, s, RunEnd(Dash, s, i + 1) + 1)
    ELSE 0

\* Every bracket of the candidate token s[i..e] is the same character.
SameBrackets(s, i, e) ==
    \A j, k \in (RunEnd(Dash, s, i + 1) + 1)..e : s[j] = s[k]

\* The candidate tokens with identical brackets from position i on.
RECURSIVE SmileysFrom(_, _)
SmileysFrom(s, i) ==
    IF i > Len(s) THEN <<>>
    ELSE (IF CandidateEnd(s, i) # 0 /\ SameBrackets(s, i, CandidateEnd(s, i))
          THEN << SubSeq(s, i, CandidateEnd(s, i)) >> ELSE <<>>)
         \o SmileysFrom(s, i + 1)

\* C21: AdvancedTextAnalyzer lists a candidate token in `smileys` if and
\* only if all brackets of its run are the same character, and
\* smiley_count is the length of `smileys`.
C21_SmileysWithSameBrackets ==
    (AdvancedRun /\ last.analyzed) =>
        /\ report["smileys"] = SmileysFrom(b_text.s, 1)
        /\ report["smiley_count"] = Len(report["smileys"])

\* A text with a mixed-bracket candidate analyzed: nothing listed.
C21_MixedBracketsRejected ==
    /\ AdvancedRun /\ last.analyzed
    /\ b_text.s = << ":", "-", ")", "]" >>
    /\ report["smiley_count"] = 0

\* C22: TextAnalyzer.count_smileys counts every token of `:` or `;`, zero
\* or more `-` and one or more identical brackets, a single-bracket one
\* included, and no candidate with two different brackets in its run.
C22_EverySmileyCounted ==
    (TextAnalyzerRun /\ last.analyzed) =>
        report["smiley_count"] = Len(SmileysFrom(text.s, 1))

\* A step in which TextAnalyzer.analyze() or a read of `sentences` returned.
AnalyzerReadStep ==
    /\ TextAnalyzerRun
    /\ last'.op \in {"analyze", "sentences"}
    /\ ~last'.raised

\* C23: analyze() and the extractors it calls (replace_math_vars among
\* them) leave the analyzer's text as it was; of the analyzer's state only
\* the sentence cache may differ, and it then holds the segmentation of
\* that same text.
C23_AnalyzeKeepsDocument ==
    [][AnalyzerReadStep =>
          /\ text' = text
          /\ constructed' = constructed
          /\ cached_sentences' = ListCache(split_into_sentences(text.s))]_vars

\* analyze() returned a substituted text that differs from the text the
\* analyzer still holds.
C23_SubstitutedButKept ==
    /\ TextAnalyzerRun /\ last.op = "analyze"
    /\ report["replaced_text"] # text.s
    /\ text.s = RichDoc
    /\ cached_sentences = ListCache(split_into_sentences(RichDoc))

ReportKeys ==
    {"sentence_count", "sentence_types", "average_sentence_length",
     "average_word_length", "smiley_count", "emails", "replaced_text",
     "odd_length_words", "shortest_i_word", "repeated_words", "word_count"}

HasChar(s, chars) == \E i \in 1..Len(s) : s[i] \in chars

\* The results of the extractors that find nothing in s are empty.
EmptyWhereNothingFound(s, rep) ==
    /\ ~HasChar(s, {"@"}) => rep["emails"] = <<>>
    /\ ~HasChar(s, {":", ";"}) => rep["smiley_count"] = 0
    /\ ~HasChar(s, LowerLetters \cup UpperLetters) =>
           /\ rep["word_count"] = 0
           /\ rep["average_word_length"].num = 0
           /\ rep["odd_length_words"] = <<>>
           /\ rep["repeated_words"] = <<>>
    /\ ~HasChar(s, {"i", "I"}) => rep["shortest_i_word"] = <<>>

\* C24: on every accepted Document analyze() returns a report with every
\* key, never an error, and an extractor without a match gives an empty
\* list, 0 or the empty string.
C24_AnalyzeNeverRaises ==
    (TextAnalyzerRun /\ constructed /\ last.op = "analyze") =>
        /\ ~last.raised /\ last.analyzed
        /\ DOMAIN report = ReportKeys
        /\ EmptyWhereNothingFound(text.s, report)

\* A Document of digits and blanks analyzed: no word, no address, no
\* smiley, and a report all the same.
C24_NothingToFind ==
    /\ TextAnalyzerRun /\ last.op = "analyze"
    /\ text.s = << "1", " ", "1" >>
    /\ report["word_count"] = 0
    /\ report["shortest_i_word"] = <<>>

AdvancedKeys ==
    {"total_sentences", "declarative_sentences", "interrogative_sentences",
     "exclamatory_sentences", "avg_sentence_length", "avg_word_length",
     "emails", "substituted_text", "odd_length_words", "shortest_i_word",
     "duplicate_words", "smileys", "smiley_count"}

\* The report rep holds every metric, computed from the text s.
SnapshotOf(rep, s) ==
    /\ DOMAIN rep = AdvancedKeys
    /\ rep["total_sentences"] = Len(BasicSentences(s))
    /\ rep["substituted_text"] = Substituted(s)
    /\ rep["smileys"] = SmileysFrom(s, 1)
    /\ rep["smiley_count"] = Len(rep["smileys"])
    /\ rep["emails"] = <<>> \/ HasChar(s, {"@"})
    /\ rep["duplicate_words"] = <<>> \/ HasChar(s, LowerLetters \cup UpperLetters \cup Digits \cup {"_"})

\* C25: each report of AdvancedTextAnalyzer.analyze(T) is a complete
\* snapshot of T; the report an earlier call returned is not changed by a
\* later call; a rejected call leaves the stored text and results as they
\* were.
C25_ReportIsSnapshot ==
    [][AdvancedRun =>
          IF last'.raised
          THEN b_text' = b_text /\ b_results' = b_results /\ held' = held
          ELSE /\ SnapshotOf(report', b_text'.s)
               /\ b_results' = report'
               /\ held'.given => held'.dict = held'.snapshot]_vars

\* Two different Documents analyzed one after the other on one instance:
\* the caller still holds the first report.
C25_EarlierReportHeld ==
    /\ AdvancedRun /\ last.analyzed
    /\ held.given
    /\ held.snapshot # report
    /\ held.dict = held.snapshot
    /\ b_text.s = RichDoc

\* C26: an assignment of an empty, None or non-string value to `text`
\* raises and changes nothing: the text and the sentence cache are as
\* before, so that `sentences` still belongs to the old text; an
\* assignment that does not raise stores a non-empty string.
C26_RejectedAssignmentChangesNothing ==
    [][(TextAnalyzerRun /\ last'.op = "set_text") =>
          IF last'.raised
          THEN /\ ~(Truthy(last'.arg) /\ IsInstanceStr(last'.arg))
               /\ text' = text
               /\ cached_sentences' = cached_sentences
               /\ constructed' = constructed
          ELSE /\ IsInstanceStr(text') /\ Len(text'.s) > 0
               /\ cached_sentences' = NoneCache]_vars

\* A rejected assignment of None on an analyzer whose cache is filled.
C26_RejectedWithFilledCache ==
    /\ TextAnalyzerRun /\ last.op = "set_text" /\ last.raised
    /\ last.arg = PyNone
    /\ cached_sentences = ListCache(split_into_sentences(text.s))
    /\ Len(cached_sentences.list) = 2

\* C27: the substitution applied to its own output gives that output
\* again (TextAnalyzer.replace_math_vars and AdvancedTextAnalyzer).
C27_SubstitutionIdempotent ==
    ((TextAnalyzerRun \/ AdvancedRun) /\ last.analyzed) =>
        /\ TextAnalyzerRun => replace_math_vars(SubstitutedText) = SubstitutedText
        /\ AdvancedRun =>
               substitute_variables(EmptyDict, SubstitutedText)["substituted_text"]
                   = SubstitutedText
        /\ \A i \in 1..Len(SubstitutedText) : ~VariableAt(SubstitutedText, i)

\* "$v_(1)$v_(2)$" analyzed: the candidate that shared a `$` is left as
\* "v_(2)$" behind the replacement.
C27_SharedDollar ==
    /\ (TextAnalyzerRun \/ AdvancedRun) /\ last.analyzed
    /\ AnalyzedDoc = << "$", "v", "_", "(", "1", ")", "$",
                        "v", "_", "(", "2", ")", "$" >>
    /\ SubstitutedText = << "v", "[", "1", "]", "v", "_", "(", "2", ")", "$" >>

\* C28: every constructed LogarithmicSeries has all its x_values strictly
\* inside (-1, 1), so get_series_values and get_function_values never raise
\* on it.
C28_ConstructedInsideInterval ==
    series.built =>
        /\ \A k \in DOMAIN series.x_values : InsideInterval(series.x_values[k])
        /\ series.op \in {"get_series_values", "get_function_values"}
               => ~series.raised

\* The array get_series_values computes for the series as it is now.
SeriesValuesNow(s) ==
    [k \in DOMAIN s.x_values |-> calculate_series(s.x_values[k], s.n_terms.n)]

\* C29: the array get_series_values returns is the one computed with the
\* current n_terms; an accepted n_terms assignment stores the value and
\* empties the result cache, a rejected one (a non-integer or a value <= 0)
\* raises and leaves n_terms and the cache as they were.
C29_SeriesValuesOfCurrentTerms ==
    [][ /\ (series'.op = "get_series_values" /\ ~series'.raised)
            => series'.returned = SeriesValuesNow(series')
        /\ (series'.op = "set_n_terms" /\ ~series'.raised)
            => /\ series'.n_terms = series'.arg
               /\ series'.results = EmptyDict
        /\ (series'.op = "set_n_terms" /\ series'.raised)
            => /\ series'.n_terms = series.n_terms
               /\ series'.results = series.results
        /\ (series'.op = "set_n_terms")
            => (series'.raised <=>
                   ~(series'.arg.type \in {"int", "bool"} /\ series'.arg.n > 0))
      ]_vars

\* get_series_values had returned values on this series, n_terms was then
\* assigned another value, and get_series_values has returned other values.
C29_RecomputedAfterAssignment ==
    /\ series.built
    /\ series.op = "get_series_values"
    /\ ~series.raised
    /\ series.earlier # <<>>
    /\ series.earlier # series.returned
    /\ series.n_terms = PyInt(MaxTerms)

\* C30: a load that finds no file returns False and leaves the books of the
\* working catalog as they were before the command, for option 5 (CSV) and
\* for option 7 (Pickle).
C30_FailedLoadKeepsBooks ==
    /\ (shelf.op = "load_from_csv" /\ ~shelf.csv_file.exists)
           => (~shelf.ok /\ shelf.books = shelf.before)
    /\ (shelf.op = "load_from_pickle" /\ ~shelf.pickle_file.exists)
           => (~shelf.ok /\ shelf.books = shelf.before)

====
